---- MODULE Spec2Model ----
(***************************************************************************)
(* Model of robotframework_debug_adapter/debugger_impl.py: the debugger    *)
(* that pauses the Robot Framework interpreter thread (the worker) in its  *)
(* run_step hook and is driven by controller threads through              *)
(* _RobotDebuggerImpl.                                                     *)
(*                                                                         *)
(* Granularity: one action per shared read or write that another thread    *)
(* can interleave with (CPython switches threads between bytecodes).       *)
(***************************************************************************)
EXTENDS Integers, Sequences, FiniteSets, TLC

\* ------------------------------------------------------------- bounds
MaxDepth == 3       \* deepest nesting of suite / test / step the interpreter reaches
MaxLine == 1        \* steps sit on lines 1..MaxLine (0: a step without lineno)
MaxEvals == 2       \* evaluate() calls in one behaviour
MaxId == 6          \* ids drawn from next_id in one behaviour
MaxResets == 2      \* reset() calls in one behaviour
MaxCalls == 3       \* calls that change the debugger, made by controller threads in one behaviour
MaxReads == 1       \* get_frames / get_scopes / get_variables calls per controller thread in one behaviour
MaxPatches == 3     \* calls of patch_execution_context in one behaviour
MaxWaits == 3       \* BusyWait.wait calls in one behaviour of a BusyWait on its own

\* ------------------------------------------------------------- values
Controllers == {"c1", "c2"}
Sources == {"a.robot", "b.robot"}
RawFiles == {"./a.robot", "b.robot"}
Lines == 1 .. MaxLine
ReqIds == 1 .. MaxEvals

STATE_RUNNING == "running"
STATE_PAUSED == "paused"
REASON_BREAKPOINT == "breakpoint"
REASON_STEP == "step"
STEP_IN == "step_in"
STEP_NEXT == "step_next"
STEP_OUT == "step_out"
None == "none"

\* values standing for an unbound local: outside ListIds, the BusyWait identities, ReqIds
NoList == 0 - 1
NoObj == 0 - 1
NoReq == 1 - 1
ListIds == 0 .. (Cardinality(Controllers) + 2)

Exprs == {"var", "novar", "kw", "text"}

VARIABLES
    \* fields of _RobotDebuggerImpl
    filename_to_line_to_breakpoint,
    busy_wait,                \* identity of the current BusyWait object
    run_state, step_cmd, reason,
    stack_ctx_entries_deque, stop_on_stack_len,
    tid_to_stack_list,        \* the snapshot of MAIN_THREAD_ID: <<>> when absent
    frame_id_to_tid,          \* the frame ids registered for MAIN_THREAD_ID
    evaluations,              \* identity of the list self._evaluations
    skip_breakpoints,
    \* module level
    id_counter,               \* the value the next call of next_id() returns
    \* heap
    lists,                    \* list objects: identity -> contents
    notified,                 \* the worker, blocked on a condition, has been notified
    requests,                 \* _EvaluationInfo objects: the state of the future
    var_store,                \* the interpreter's variable store (value of one variable)
    \* the worker thread
    wpc, nest, wStep, wReason, wBw, wEvals, wIdx, wReq, wArgs, wOutcome,
    wStack,                   \* the frame ids of the _StackInfo that _dispose_stack_info popped
    \* controller threads
    cpc, c_list, c_bw, c_req,
    c_fid, c_snap,            \* get_scopes: its argument and the _StackInfo it holds
    c_scopes,                 \* _KeywordFrameInfo.get_scopes: its local list `scopes`
    \* history (not program state)
    track, resets, calls, reads,
    threads,                  \* the controller threads that exist
    \* the module: patch_execution_context.impl and what the first call installed
    patched,
    \* a BusyWait object driven on its own
    bw,                       \* its fields waited and proceeded
    c_loaded,                 \* proceed: the value of self.proceeded a thread has loaded
    bw_hist                   \* history: wait() calls started, proceed() calls completed

dbg == <<filename_to_line_to_breakpoint, busy_wait, run_state, step_cmd, reason,
         stack_ctx_entries_deque, stop_on_stack_len, tid_to_stack_list,
         frame_id_to_tid, evaluations, skip_breakpoints>>
heap == <<id_counter, lists, notified, requests, var_store>>
wrk == <<wpc, nest, wStep, wReason, wBw, wEvals, wIdx, wReq, wArgs, wOutcome, wStack>>
gate == <<bw, c_loaded, bw_hist>>
ctl == <<cpc, c_list, c_bw, c_req, c_fid, c_snap, c_scopes, threads, patched, gate>>
hist == <<track, resets, calls, reads>>
vars == <<dbg, heap, wrk, ctl, hist>>

\* ------------------------------------------------------------- helpers
Last(s) == s[Len(s)]
ButLast(s) == SubSeq(s, 1, Len(s) - 1)
Range(s) == {s[i] : i \in DOMAIN s}
Reverse(s) == [i \in 1 .. Len(s) |-> s[Len(s) + 1 - i]]

\* file_utils.get_abs_path_real_path_and_base_from_file(f)[1]: the normalised path
NormFile(f) == IF f = "./a.robot" THEN "a.robot" ELSE f

NoBreakpoints == [s \in Sources |-> {}]
NoTrack == [phase |-> "none", depth |-> 0]
NoStep == [source |-> "a.robot", lineno |-> 0, lines |-> {}]
NoSnapshot == <<>>
NoArgs == [frame_id |-> 0, expression |-> "text"]
NoOutcome == [kind |-> None, err |-> None, val |-> 0]
FreeRequest == [used |-> FALSE, queued |-> FALSE, returned |-> FALSE, running |-> FALSE,
                after |-> {}, future |-> "pending", fulfils |-> 0]

\* the list objects some thread or field still refers to
LiveLists(ev, we, cl) == ({ev, we} \cup {cl[c] : c \in Controllers}) \ {NoList}
Collect(ls, live) == [i \in ListIds |-> IF i \in live THEN ls[i] ELSE <<>>]
\* a fresh list object: an identity nobody refers to
FreshList(live) == CHOOSE i \in ListIds : i \notin live /\ \A j \in ListIds : j \notin live => i <= j

\* the worker is inside wait_suspended's while loop
InPauseLoop == wpc \in {"ws_test", "ws_wait", "ws_blocked", "ws_load", "ws_swap", "ws_iter",
                        "ev_eval", "ev_before", "ev_run", "ev_after", "ev_set"}
\* the worker is running a step invoked by an evaluation (one entry above the pause)
InInvokedStep == wpc \in {"ev_run", "ev_after"}
PauseDepth == Len(stack_ctx_entries_deque) - (IF InInvokedStep THEN 1 ELSE 0)
Paused == run_state = STATE_PAUSED /\ InPauseLoop
\* controller c is inside step_continue / step_in / step_next / step_out
InStepCall(c) == cpc[c] \in {"step_state", "proceed", "notify"} /\ c_req[c] = NoReq

\* ------------------------------------------------------------- initial state
\* _RobotDebuggerImpl.__init__: the state reset() leaves, nothing running yet
\* patch_execution_context has been called once: one _RobotDebuggerImpl, run_step
\* wrapped once, the four listener callbacks registered once
Installed == [impl |-> 1, wraps |-> 1, registered |-> 1, returned |-> 1,
              new_session |-> TRUE, n |-> 1]
\* the module before the first call: patch_execution_context has no impl attribute
NotInstalled == [impl |-> 0, wraps |-> 0, registered |-> 0, returned |-> 0,
                 new_session |-> FALSE, n |-> 0]

Start ==
    /\ filename_to_line_to_breakpoint = NoBreakpoints
    /\ busy_wait = 0
    /\ run_state = STATE_RUNNING
    /\ step_cmd = None
    /\ reason = None
    /\ stack_ctx_entries_deque = <<>>
    /\ stop_on_stack_len = 0
    /\ tid_to_stack_list = NoSnapshot
    /\ frame_id_to_tid = {}
    /\ evaluations = 0
    /\ skip_breakpoints = 0
    /\ id_counter = 1
    /\ lists = [i \in ListIds |-> <<>>]
    /\ notified = FALSE
    /\ requests = [r \in ReqIds |-> FreeRequest]
    /\ var_store = 1
    /\ wpc = "run"
    /\ nest = <<>>
    /\ wStep = NoStep
    /\ wReason = None
    /\ wBw = NoObj
    /\ wEvals = NoList
    /\ wIdx = 0
    /\ wReq = NoReq
    /\ wArgs = NoArgs
    /\ wOutcome = NoOutcome
    /\ wStack = {}
    /\ cpc = [c \in Controllers |-> "idle"]
    /\ c_list = [c \in Controllers |-> NoList]
    /\ c_bw = [c \in Controllers |-> NoObj]
    /\ c_req = [c \in Controllers |-> NoReq]
    /\ c_fid = [c \in Controllers |-> 0]
    /\ c_snap = [c \in Controllers |-> NoSnapshot]
    /\ c_scopes = [c \in Controllers |-> <<>>]
    /\ bw = [waited |-> 0, proceeded |-> 0]
    /\ c_loaded = [c \in Controllers |-> 0]
    /\ bw_hist = [waits |-> 0, proceeds |-> 0]
    /\ track = NoTrack
    /\ resets = 0
    /\ calls = 0
    /\ reads = 0

\* ------------------------------------------------------------- the interpreter's hooks
\* deque.pop() of the live call entries; an empty deque raises IndexError
PopEntry ==
    IF stack_ctx_entries_deque = <<>>
    THEN /\ wpc' = "raise"
         /\ UNCHANGED stack_ctx_entries_deque
    ELSE /\ wpc' = "run"
         /\ stack_ctx_entries_deque' = ButLast(stack_ctx_entries_deque)

start_suite ==
    /\ wpc = "run"
    /\ Len(nest) < MaxDepth
    /\ nest = <<>>
    /\ stack_ctx_entries_deque' = Append(stack_ctx_entries_deque, "Suite")
    /\ nest' = Append(nest, "Suite")
    /\ UNCHANGED <<filename_to_line_to_breakpoint, busy_wait, run_state, step_cmd, reason,
                   stop_on_stack_len, tid_to_stack_list, frame_id_to_tid, evaluations,
                   skip_breakpoints, heap, wpc, wStep, wReason, wBw, wEvals, wIdx, wReq,
                   wArgs, wOutcome, wStack, ctl, track, resets, reads, calls>>

\* start_test entering wait_suspended when STEP_IN is pending
start_test_Pausing ==
    /\ wpc = "run"
    /\ Len(nest) < MaxDepth
    /\ nest # <<>> /\ Last(nest) = "Suite"
    /\ stack_ctx_entries_deque' = Append(stack_ctx_entries_deque, "Test")
    /\ nest' = Append(nest, "Test")
    /\ wpc' = IF step_cmd = STEP_IN THEN "ws_create" ELSE "run"
    /\ wReason' = IF step_cmd = STEP_IN THEN REASON_STEP ELSE wReason
    /\ UNCHANGED <<filename_to_line_to_breakpoint, busy_wait, run_state, step_cmd, reason,
                   stop_on_stack_len, tid_to_stack_list, frame_id_to_tid, evaluations,
                   skip_breakpoints, heap, wStep, wBw, wEvals, wIdx, wReq,
                   wArgs, wOutcome, wStack, ctl, track, resets, reads, calls>>

start_test ==
    /\ wpc = "run"
    /\ Len(nest) < MaxDepth
    /\ nest # <<>> /\ Last(nest) = "Suite"
    /\ stack_ctx_entries_deque' = Append(stack_ctx_entries_deque, "Test")
    /\ nest' = Append(nest, "Test")
    /\ UNCHANGED <<filename_to_line_to_breakpoint, busy_wait, run_state, step_cmd, reason,
                   stop_on_stack_len, tid_to_stack_list, frame_id_to_tid, evaluations,
                   skip_breakpoints, heap, wpc, wStep, wReason, wBw, wEvals, wIdx, wReq,
                   wArgs, wOutcome, wStack, ctl, track, resets, reads, calls>>

EndHook(kind) ==
    /\ wpc = "run"
    /\ nest # <<>> /\ Last(nest) = kind
    /\ PopEntry
    /\ nest' = ButLast(nest)
    /\ UNCHANGED <<filename_to_line_to_breakpoint, busy_wait, run_state, step_cmd, reason,
                   stop_on_stack_len, tid_to_stack_list, frame_id_to_tid, evaluations,
                   skip_breakpoints, heap, wStep, wReason, wBw, wEvals, wIdx, wReq,
                   wArgs, wOutcome, wStack, ctl, hist>>

end_suite == EndHook("Suite")
end_test == EndHook("Test")
\* new_method's finally: call_after_method once original_method is over
after_run_step == EndHook("Step")

\* before_run_step up to the lookup of the breakpoints: the push, the test of
\* _skip_breakpoints and the read of step.lineno / step.source (lineno 0: the step
\* has no such attributes, AttributeError, return).  The entry of such a step is
\* written "Bare": a _StepEntry whose keyword has no lineno.
before_run_step(source, lineno) ==
    /\ wpc = "run"
    /\ nest # <<>>
    /\ Len(nest) < MaxDepth
    /\ stack_ctx_entries_deque' =
           Append(stack_ctx_entries_deque, IF lineno = 0 THEN "Bare" ELSE "Step")
    /\ nest' = Append(nest, "Step")
    /\ IF skip_breakpoints # 0 \/ lineno = 0
       THEN wpc' = "run" /\ UNCHANGED wStep
       ELSE wpc' = "br_decide" /\ wStep' = [source |-> source, lineno |-> lineno, lines |-> {}]
    /\ UNCHANGED <<filename_to_line_to_breakpoint, busy_wait, run_state, step_cmd, reason,
                   stop_on_stack_len, tid_to_stack_list, frame_id_to_tid, evaluations,
                   skip_breakpoints, heap, wReason, wBw, wEvals, wIdx, wReq,
                   wArgs, wOutcome, wStack, ctl, track, resets, reads, calls>>

\* the decision with the step command looked at before the breakpoints
Decide_StepFirst(lines, lineno, cmd, depth, stop) ==
    IF cmd = STEP_IN THEN REASON_STEP
    ELSE IF cmd \in {STEP_NEXT, STEP_OUT} /\ depth <= stop THEN REASON_STEP
    ELSE IF lines # {} /\ lineno \in lines THEN REASON_BREAKPOINT
    ELSE None

\* the decision with STEP_IN held to the stepping depth like STEP_NEXT and STEP_OUT
Decide_StepInGated(lines, lineno, cmd, depth, stop) ==
    IF lines # {} /\ lineno \in lines THEN REASON_BREAKPOINT
    ELSE IF cmd \in {STEP_IN, STEP_NEXT, STEP_OUT} /\ depth <= stop THEN REASON_STEP
    ELSE None

\* the decision with STEP_NEXT pausing at any depth
Decide_NextAnyDepth(lines, lineno, cmd, depth, stop) ==
    IF lines # {} /\ lineno \in lines THEN REASON_BREAKPOINT
    ELSE IF cmd \in {STEP_IN, STEP_NEXT} THEN REASON_STEP
    ELSE IF cmd = STEP_OUT /\ depth <= stop THEN REASON_STEP
    ELSE None

\* the decision pausing at every step when no step command is set
Decide_StepOnContinue(lines, lineno, cmd, depth, stop) ==
    IF lines # {} /\ lineno \in lines THEN REASON_BREAKPOINT
    ELSE IF cmd \in {None, STEP_IN} THEN REASON_STEP
    ELSE IF cmd \in {STEP_NEXT, STEP_OUT} /\ depth <= stop THEN REASON_STEP
    ELSE None

\* lines 664-675: the stop reason of a step at lineno, given the line set of its file
Decide(lines, lineno, cmd, depth, stop) ==
    IF lines # {} /\ lineno \in lines THEN REASON_BREAKPOINT
    ELSE IF cmd # None
         THEN IF cmd = STEP_IN THEN REASON_STEP
              ELSE IF cmd \in {STEP_NEXT, STEP_OUT} /\ depth <= stop THEN REASON_STEP
              ELSE None
         ELSE None

\* lines 658-675: the lookup in the table and the decision
br_decide ==
    /\ wpc = "br_decide"
    /\ LET lines == filename_to_line_to_breakpoint[NormFile(wStep.source)] IN
         /\ wStep' = [wStep EXCEPT !.lines = lines]
         /\ wReason' = Decide(lines, wStep.lineno, step_cmd,
                              Len(stack_ctx_entries_deque), stop_on_stack_len)
    /\ wpc' = "br_branch"
    /\ UNCHANGED <<dbg, heap, nest, wBw, wEvals, wIdx, wReq, wArgs, wOutcome, wStack, ctl, hist>>

\* lines 677-678: wait_suspended is entered when a reason was found
br_branch ==
    /\ wpc = "br_branch"
    /\ wpc' = IF wReason # None THEN "ws_create" ELSE "run"
    /\ wStep' = NoStep
    /\ wReason' = IF wReason # None THEN wReason ELSE None
    /\ track' = IF track.phase = "resumed" /\ (wReason # None \/ step_cmd = STEP_IN)
                THEN NoTrack ELSE track
    /\ UNCHANGED <<dbg, heap, nest, wBw, wEvals, wIdx, wReq, wArgs, wOutcome, wStack, ctl,
                   resets, reads, calls>>

\* ------------------------------------------------------------- the pause
\* entry.__class__ == _StepEntry
IsStepEntry(kind) == kind \in {"Step", "Bare"}

\* _create_stack_info's loop over reversed(deque): the entries that reach an
\* add_*_entry_stack call, innermost first.  A suite or test entry met before any
\* step entry reads the unbound local `keyword` and is skipped by the except clause
\* before that call.
FrameKinds(entries) ==
    LET rev == Reverse(entries)
        steps == {i \in DOMAIN rev : IsStepEntry(rev[i])}
    IN  IF steps = {} THEN <<>>
        ELSE LET first == CHOOSE i \in steps : \A j \in steps : i <= j
             IN  SubSeq(rev, first, Len(rev))

\* add_keyword_entry_stack draws the id (line 244) and then reads keyword.lineno
\* (line 254): for a keyword without lineno that is an AttributeError, the except
\* clause of _create_stack_info swallows it and no frame is appended
HasFrame(slot) == slot.kind # "Bare"

\* the frames of a new _StackInfo numbered from 1 in every snapshot
NewFrames_Restart(entries, first_id) ==
    LET kinds == FrameKinds(entries)
    IN  SelectSeq([i \in 1 .. Len(kinds) |->
                       [id |-> i, kind |-> kinds[i], refs |-> <<>>]],
                  HasFrame)

\* the frames of a new _StackInfo, innermost first; every add_*_entry_stack call
\* draws the next id, whether or not it appends a frame
NewFrames(entries, first_id) ==
    LET kinds == FrameKinds(entries)
    IN  SelectSeq([i \in 1 .. Len(kinds) |->
                       [id |-> first_id + i - 1, kind |-> kinds[i], refs |-> <<>>]],
                  HasFrame)

FrameIds(frames) == {frames[i].id : i \in DOMAIN frames}

ws_create ==
    /\ wpc = "ws_create"
    /\ LET frames == NewFrames(stack_ctx_entries_deque, id_counter)
           drawn == Len(FrameKinds(stack_ctx_entries_deque)) IN
         /\ id_counter + drawn - 1 <= MaxId
         /\ id_counter' = id_counter + drawn
         /\ frame_id_to_tid' = frame_id_to_tid \cup FrameIds(frames)
         /\ tid_to_stack_list' = <<[frames |-> frames]>>
    /\ wpc' = "ws_state"
    /\ UNCHANGED <<filename_to_line_to_breakpoint, busy_wait, run_state, step_cmd, reason,
                   stack_ctx_entries_deque, stop_on_stack_len, evaluations, skip_breakpoints,
                   lists, notified, requests, var_store,
                   nest, wStep, wReason, wBw, wEvals, wIdx, wReq, wArgs, wOutcome, wStack, ctl, hist>>

ws_state ==
    /\ wpc = "ws_state"
    /\ run_state' = STATE_PAUSED
    /\ wpc' = "ws_reason"
    /\ UNCHANGED <<filename_to_line_to_breakpoint, busy_wait, step_cmd, reason,
                   stack_ctx_entries_deque, stop_on_stack_len, tid_to_stack_list,
                   frame_id_to_tid, evaluations, skip_breakpoints, heap,
                   nest, wStep, wReason, wBw, wEvals, wIdx, wReq, wArgs, wOutcome, wStack, ctl, hist>>

\* self._reason = reason, then pre_wait() (no callback is registered); the
\* parameter `reason` of wait_suspended lives until the call ends
ws_reason ==
    /\ wpc = "ws_reason"
    /\ reason' = wReason
    /\ wpc' = "ws_test"
    /\ UNCHANGED <<filename_to_line_to_breakpoint, busy_wait, run_state, step_cmd,
                   stack_ctx_entries_deque, stop_on_stack_len, tid_to_stack_list,
                   frame_id_to_tid, evaluations, skip_breakpoints, heap,
                   nest, wStep, wReason, wBw, wEvals, wIdx, wReq, wArgs, wOutcome, wStack, ctl, hist>>

\* the loop test of wait_suspended looking at the step command instead of RunState
ws_test_OnCommand ==
    /\ wpc = "ws_test"
    /\ wpc' = IF run_state = STATE_PAUSED /\ step_cmd = None THEN "ws_wait" ELSE "ws_exit"
    /\ UNCHANGED <<dbg, heap, nest, wStep, wReason, wBw, wEvals, wIdx, wReq, wArgs, wOutcome, wStack,
                   ctl, hist>>

\* while self._run_state == STATE_PAUSED
ws_test ==
    /\ wpc = "ws_test"
    /\ wpc' = IF run_state = STATE_PAUSED THEN "ws_wait" ELSE "ws_exit"
    /\ UNCHANGED <<dbg, heap, nest, wStep, wReason, wBw, wEvals, wIdx, wReq, wArgs, wOutcome, wStack,
                   ctl, hist>>

\* BusyWait.wait up to Condition.wait: the worker joins the waiters of the
\* condition of the BusyWait object it read
ws_wait ==
    /\ wpc = "ws_wait"
    /\ wBw' = busy_wait
    /\ notified' = FALSE
    /\ wpc' = "ws_blocked"
    /\ UNCHANGED <<dbg, id_counter, lists, requests, var_store,
                   nest, wStep, wReason, wEvals, wIdx, wReq, wArgs, wOutcome, wStack, ctl, hist>>

\* Condition.wait returns once notify_all has reached the worker
ws_wake ==
    /\ wpc = "ws_blocked"
    /\ notified
    /\ notified' = FALSE
    /\ wBw' = NoObj
    /\ wpc' = "ws_load"
    /\ UNCHANGED <<dbg, id_counter, lists, requests, var_store,
                   nest, wStep, wReason, wEvals, wIdx, wReq, wArgs, wOutcome, wStack, ctl, hist>>

\* evaluations = self._evaluations
ws_load ==
    /\ wpc = "ws_load"
    /\ wEvals' = evaluations
    /\ wpc' = "ws_swap"
    /\ UNCHANGED <<dbg, heap, nest, wStep, wReason, wBw, wIdx, wReq, wArgs, wOutcome, wStack, ctl, hist>>

\* self._evaluations = [], and the for statement takes an iterator of the old list
ws_swap ==
    /\ wpc = "ws_swap"
    /\ LET new == FreshList(LiveLists(evaluations, wEvals, c_list)) IN
         /\ evaluations' = new
         /\ lists' = Collect([lists EXCEPT ![new] = <<>>], LiveLists(new, wEvals, c_list))
    /\ wIdx' = 0
    /\ wpc' = "ws_iter"
    /\ UNCHANGED <<filename_to_line_to_breakpoint, busy_wait, run_state, step_cmd, reason,
                   stack_ctx_entries_deque, stop_on_stack_len, tid_to_stack_list,
                   frame_id_to_tid, skip_breakpoints, id_counter, notified, requests,
                   var_store, nest, wStep, wReason, wBw, wEvals, wReq, wArgs, wOutcome, wStack, ctl, hist>>

\* the for statement asks the list iterator for the next request: an item appended
\* meanwhile is still seen, an exhausted iterator ends the loop for good
ws_iter ==
    /\ wpc = "ws_iter"
    /\ IF wIdx < Len(lists[wEvals])
       THEN /\ wReq' = lists[wEvals][wIdx + 1]
            /\ wIdx' = wIdx + 1
            /\ skip_breakpoints' = skip_breakpoints + 1
            /\ wpc' = "ev_eval"
            /\ UNCHANGED <<wEvals, lists>>
       ELSE /\ wEvals' = NoList
            /\ lists' = Collect(lists, LiveLists(evaluations, NoList, c_list))
            /\ wIdx' = 0
            /\ wpc' = "ws_test"
            /\ UNCHANGED <<wReq, skip_breakpoints>>
    /\ UNCHANGED <<filename_to_line_to_breakpoint, busy_wait, run_state, step_cmd, reason,
                   stack_ctx_entries_deque, stop_on_stack_len, tid_to_stack_list,
                   frame_id_to_tid, evaluations, id_counter, notified, requests,
                   var_store, nest, wStep, wReason, wBw, wArgs, wOutcome, wStack, ctl, hist>>

\* the stepping depth with STEP_NEXT allowing one level below the paused step
StopOnStackLen_NextDeeper(cmd, depth, old) ==
    IF cmd = STEP_NEXT THEN depth + 1
    ELSE IF cmd = STEP_OUT THEN depth - 1
    ELSE old

\* the stepping depth with STEP_OUT staying at the level of the paused step
StopOnStackLen_OutSame(cmd, depth, old) ==
    IF cmd \in {STEP_NEXT, STEP_OUT} THEN depth
    ELSE old

\* lines 585-589: the depth the next STEP_NEXT / STEP_OUT pause is allowed at
StopOnStackLen(cmd, depth, old) ==
    IF cmd = STEP_NEXT THEN depth
    ELSE IF cmd = STEP_OUT THEN depth - 1
    ELSE old

ws_exit ==
    /\ wpc = "ws_exit"
    /\ stop_on_stack_len' = StopOnStackLen(step_cmd, Len(stack_ctx_entries_deque),
                                           stop_on_stack_len)
    /\ wpc' = "ws_dispose"
    /\ wReason' = None
    /\ track' = IF track.phase = "issued" THEN [track EXCEPT !.phase = "resumed"] ELSE track
    /\ UNCHANGED <<filename_to_line_to_breakpoint, busy_wait, run_state, step_cmd, reason,
                   stack_ctx_entries_deque, tid_to_stack_list, frame_id_to_tid, evaluations,
                   skip_breakpoints, heap, nest, wStep, wBw, wEvals, wIdx, wReq,
                   wArgs, wOutcome, wStack, ctl, resets, reads, calls>>

\* _dispose_stack_info reading the snapshot and leaving it in the dictionary
DisposeStackInfo_Keep ==
    IF tid_to_stack_list = NoSnapshot
    THEN UNCHANGED <<tid_to_stack_list, wStack>>
    ELSE /\ UNCHANGED tid_to_stack_list
         /\ wStack' = FrameIds(tid_to_stack_list[1].frames)

\* _dispose_stack_info, line 557: dict.pop of the snapshot; the worker holds the
\* popped _StackInfo.  (A snapshot that is gone raises KeyError: see ws_dispose.)
DisposeStackInfo ==
    IF tid_to_stack_list = NoSnapshot
    THEN UNCHANGED <<tid_to_stack_list, wStack>>
    ELSE /\ tid_to_stack_list' = NoSnapshot
         /\ wStack' = FrameIds(tid_to_stack_list[1].frames)

\* _dispose_stack_info, lines 558-559: the frame ids of the popped _StackInfo are
\* popped from _frame_id_to_tid; an id that is gone raises KeyError
PopFrameIds ==
    /\ frame_id_to_tid' = frame_id_to_tid \ wStack
    /\ wStack' = {}

\* the finally clause of wait_suspended after the loop ended normally; before_run_step
\* then returns and original_method runs the step
ws_dispose ==
    /\ wpc = "ws_dispose"
    /\ DisposeStackInfo
    /\ IF tid_to_stack_list = NoSnapshot
       THEN wpc' = "raise" /\ nest' = ButLast(nest)
       ELSE wpc' = "ws_dispose_ids" /\ UNCHANGED nest
    /\ UNCHANGED <<filename_to_line_to_breakpoint, busy_wait, run_state, step_cmd, reason,
                   stack_ctx_entries_deque, stop_on_stack_len, frame_id_to_tid, evaluations,
                   skip_breakpoints, heap, wStep, wReason, wBw, wEvals, wIdx, wReq,
                   wArgs, wOutcome, ctl, hist>>

ws_dispose_ids ==
    /\ wpc = "ws_dispose_ids"
    /\ PopFrameIds
    /\ IF wStack \subseteq frame_id_to_tid
       THEN wpc' = "run" /\ UNCHANGED nest
       ELSE wpc' = "raise" /\ nest' = ButLast(nest)
    /\ UNCHANGED <<filename_to_line_to_breakpoint, busy_wait, run_state, step_cmd, reason,
                   stack_ctx_entries_deque, stop_on_stack_len, tid_to_stack_list, evaluations,
                   skip_breakpoints, heap, wStep, wReason, wBw, wEvals, wIdx, wReq,
                   wArgs, wOutcome, ctl, hist>>

\* the finally clause of wait_suspended with an exception in flight: the exception
\* leaves before_run_step, so new_method never reaches its try and the entry that
\* before_run_step pushed stays in the deque
ws_unwind ==
    /\ wpc = "ws_unwind"
    /\ DisposeStackInfo
    /\ IF tid_to_stack_list = NoSnapshot
       THEN wpc' = "raise" /\ nest' = ButLast(nest)
       ELSE wpc' = "ws_unwind_ids" /\ UNCHANGED nest
    /\ wReason' = None
    /\ UNCHANGED <<filename_to_line_to_breakpoint, busy_wait, run_state, step_cmd, reason,
                   stack_ctx_entries_deque, stop_on_stack_len, frame_id_to_tid, evaluations,
                   skip_breakpoints, heap, wStep, wBw, wEvals, wIdx, wReq,
                   wArgs, wOutcome, ctl, hist>>

ws_unwind_ids ==
    /\ wpc = "ws_unwind_ids"
    /\ PopFrameIds
    /\ wpc' = "raise"
    /\ nest' = ButLast(nest)
    /\ UNCHANGED <<filename_to_line_to_breakpoint, busy_wait, run_state, step_cmd, reason,
                   stack_ctx_entries_deque, stop_on_stack_len, tid_to_stack_list, evaluations,
                   skip_breakpoints, heap, wStep, wReason, wBw, wEvals, wIdx, wReq,
                   wArgs, wOutcome, ctl, hist>>

\* an exception travelling up the interpreter: every enclosing new_method runs
\* call_after_method in its finally clause
unwind ==
    /\ wpc = "raise"
    /\ nest # <<>> /\ Last(nest) = "Step"
    /\ nest' = ButLast(nest)
    /\ stack_ctx_entries_deque' = IF stack_ctx_entries_deque = <<>> THEN <<>>
                                  ELSE ButLast(stack_ctx_entries_deque)
    /\ UNCHANGED <<filename_to_line_to_breakpoint, busy_wait, run_state, step_cmd, reason,
                   stop_on_stack_len, tid_to_stack_list, frame_id_to_tid, evaluations,
                   skip_breakpoints, heap, wpc, wStep, wReason, wBw, wEvals, wIdx, wReq,
                   wArgs, wOutcome, wStack, ctl, hist>>

\* ------------------------------------------------------------- evaluating a request
Result(v) == [kind |-> "result", err |-> None, val |-> v]
Error(e) == [kind |-> "error", err |-> e, val |-> 0]
Invoke == [kind |-> "invoke", err |-> None, val |-> 0]

\* iter_keyword_usage_tokens(get_model(...)) on the expression: the number of keyword
\* usages found
KeywordUsages(expression) == IF expression = "kw" THEN 1 ELSE 0

\* lines 398-430 of _do_eval: the expression as a keyword call
EvalKeywordCall(frame_id, expression, frames) ==
    IF KeywordUsages(expression) = 1 /\ frames # <<>>
    THEN IF frames[1].id # frame_id THEN Error("UnableToEvaluateError") ELSE Invoke
    ELSE Error("UnableToEvaluateError")

\* _EvaluationInfo._do_eval up to the call of run_keyword: the outcomes it can have.
\* ast_utils.iter_keyword_usage_tokens of this tree takes a second parameter
\* (ast_utils.py:1203) that the call of line 408 does not pass, which is a
\* TypeError; with the one-parameter helper the call goes on to lines 409-430.
DoEval(frame_id, expression) ==
    IF frame_id \notin frame_id_to_tid \/ tid_to_stack_list = NoSnapshot
    THEN {Error("InvalidFrameIdError")}
    ELSE LET frames == tid_to_stack_list[1].frames
             found == {i \in DOMAIN frames : frames[i].id = frame_id}
         IN  IF found = {} THEN {Error("InvalidFrameIdError")}
             ELSE IF frames[CHOOSE i \in found : TRUE].kind # "Step"
                  THEN {Error("InvalidFrameTypeError")}
             ELSE IF expression = "var" THEN {Result(var_store)}
             ELSE {Error("TypeError"), EvalKeywordCall(frame_id, expression, frames)}

\* evaluation.evaluate(self) up to the call of run_keyword.  The frame id and the
\* expression of an _EvaluationInfo are written by its constructor and read here
\* only, so they are drawn here: 0 stands for every id that names no frame now.
ev_eval ==
    /\ wpc = "ev_eval"
    /\ \E fid \in {0} \cup frame_id_to_tid, e \in Exprs :
         /\ wArgs' = [frame_id |-> fid, expression |-> e]
         /\ \E o \in DoEval(fid, e) :
              /\ wOutcome' = o
              /\ wpc' = IF o.kind = "invoke" THEN "ev_before" ELSE "ev_set"
    /\ UNCHANGED <<dbg, heap, nest, wStep, wReason, wBw, wEvals, wIdx, wReq, wStack, ctl, hist>>

\* BuiltIn().run_keyword enters new_method: before_run_step pushes the step and
\* returns at once because _skip_breakpoints is set.  (After a reset() in the middle
\* of the evaluation the counter is 0 and the hook goes on to its decision for a
\* keyword that has no source: it returns or raises, and the entry stays pushed.)
ev_before ==
    /\ wpc = "ev_before"
    /\ stack_ctx_entries_deque' = Append(stack_ctx_entries_deque, "Step")
    /\ IF skip_breakpoints # 0
       THEN wpc' = "ev_run" /\ UNCHANGED wOutcome
       ELSE \E raised \in BOOLEAN :
              /\ wpc' = IF raised THEN "ev_set" ELSE "ev_run"
              /\ wOutcome' = IF raised THEN Error("TypeError") ELSE wOutcome
    /\ UNCHANGED <<filename_to_line_to_breakpoint, busy_wait, run_state, step_cmd, reason,
                   stop_on_stack_len, tid_to_stack_list, frame_id_to_tid, evaluations,
                   skip_breakpoints, heap, nest, wStep, wReason, wBw, wEvals, wIdx, wReq,
                   wArgs, wStack, ctl, hist>>

\* original_method: the keyword runs; it passes and changes the variable, or fails
ev_run ==
    /\ wpc = "ev_run"
    /\ \E passed \in BOOLEAN :
         /\ wOutcome' = IF passed THEN Result(0) ELSE Error("ExecutionFailed")
         /\ var_store' = IF passed THEN var_store + 1 ELSE var_store
    /\ wpc' = "ev_after"
    /\ UNCHANGED <<dbg, id_counter, lists, notified, requests,
                   nest, wStep, wReason, wBw, wEvals, wIdx, wReq, wArgs, wStack, ctl, hist>>

\* new_method's finally: after_run_step pops the entry of the invoked step
ev_after ==
    /\ wpc = "ev_after"
    /\ IF stack_ctx_entries_deque = <<>>
       THEN wOutcome' = Error("IndexError") /\ UNCHANGED stack_ctx_entries_deque
       ELSE /\ stack_ctx_entries_deque' = ButLast(stack_ctx_entries_deque)
            /\ UNCHANGED wOutcome
    /\ wpc' = "ev_set"
    /\ UNCHANGED <<filename_to_line_to_breakpoint, busy_wait, run_state, step_cmd, reason,
                   stop_on_stack_len, tid_to_stack_list, frame_id_to_tid, evaluations,
                   skip_breakpoints, heap, nest, wStep, wReason, wBw, wEvals, wIdx, wReq,
                   wArgs, wStack, ctl, hist>>

\* the state Future.set_result / Future.set_exception leaves
SetFuture(outcome) == IF outcome.kind = "result" THEN "result" ELSE "exception"

\* _EvaluationInfo.evaluate, lines 438-441, and the finally clause of line 583.
\* Setting a cancelled future raises InvalidStateError (CPython 3.8 and later), in
\* the try block and again in the except block; before 3.8 it overwrote the state.
ev_set ==
    /\ wpc = "ev_set"
    /\ \E raised \in {FALSE, requests[wReq].future = "cancelled"} :
         IF raised
         THEN /\ UNCHANGED requests
              /\ wpc' = "ws_unwind"
         ELSE /\ requests' = [requests EXCEPT ![wReq].future = SetFuture(wOutcome),
                                              ![wReq].fulfils = @ + 1]
              /\ wpc' = "ws_iter"
    /\ skip_breakpoints' = skip_breakpoints - 1
    /\ wReq' = NoReq
    /\ wArgs' = NoArgs
    /\ wOutcome' = NoOutcome
    /\ UNCHANGED <<filename_to_line_to_breakpoint, busy_wait, run_state, step_cmd, reason,
                   stack_ctx_entries_deque, stop_on_stack_len, tid_to_stack_list,
                   frame_id_to_tid, evaluations, id_counter, lists, notified, var_store,
                   nest, wStep, wReason, wBw, wEvals, wIdx, wStack, ctl, hist>>

\* ------------------------------------------------------------- controller calls
\* BusyWait.proceed: self.busy_wait is read and proceeded incremented ...
proceed_enter(c) ==
    /\ cpc[c] = "proceed"
    /\ c_bw' = [c_bw EXCEPT ![c] = busy_wait]
    /\ cpc' = [cpc EXCEPT ![c] = "notify"]
    /\ UNCHANGED <<threads, gate, c_scopes, patched, c_fid, c_snap, dbg, heap, wrk, c_list, c_req, hist>>

\* proceed holding the caller until the worker is blocked in wait()
proceed_notify_Handshake(c) ==
    /\ cpc[c] = "notify"
    /\ wpc = "ws_blocked"
    /\ notified' = (notified \/ (wpc = "ws_blocked" /\ wBw = c_bw[c]))
    /\ requests' = IF c_req[c] = NoReq THEN requests
                   ELSE [requests EXCEPT ![c_req[c]].returned = TRUE]
    /\ cpc' = [cpc EXCEPT ![c] = "idle"]
    /\ c_bw' = [c_bw EXCEPT ![c] = NoObj]
    /\ c_req' = [c_req EXCEPT ![c] = NoReq]
    /\ UNCHANGED <<threads, gate, c_scopes, patched, c_fid, c_snap, dbg, id_counter, lists, var_store, wrk, c_list, hist>>

\* ... and notify_all wakes the waiters of that object's condition; the call returns
proceed_notify(c) ==
    /\ cpc[c] = "notify"
    /\ notified' = (notified \/ (wpc = "ws_blocked" /\ wBw = c_bw[c]))
    /\ requests' = IF c_req[c] = NoReq THEN requests
                   ELSE [requests EXCEPT ![c_req[c]].returned = TRUE]
    /\ cpc' = [cpc EXCEPT ![c] = "idle"]
    /\ c_bw' = [c_bw EXCEPT ![c] = NoObj]
    /\ c_req' = [c_req EXCEPT ![c] = NoReq]
    /\ UNCHANGED <<threads, gate, c_scopes, patched, c_fid, c_snap, dbg, id_counter, lists, var_store, wrk, c_list, hist>>

\* the first statement of a step command: self._step_cmd = cmd
StepCommand(c, cmd) ==
    /\ c \in threads /\ cpc[c] = "idle"
    /\ step_cmd' = cmd
    /\ cpc' = [cpc EXCEPT ![c] = "step_state"]
    /\ track' = IF Paused /\ \A d \in Controllers \ {c} : ~InStepCall(d)
                THEN [phase |-> "issued", depth |-> PauseDepth]
                ELSE NoTrack
    /\ calls < MaxCalls
    /\ calls' = calls + 1
    /\ UNCHANGED <<threads, gate, c_scopes, patched, c_fid, c_snap, filename_to_line_to_breakpoint, busy_wait, run_state, reason,
                   stack_ctx_entries_deque, stop_on_stack_len, tid_to_stack_list,
                   frame_id_to_tid, evaluations, skip_breakpoints, heap, wrk,
                   c_list, c_bw, c_req, resets, reads>>

step_continue(c) == StepCommand(c, None)
step_in(c) == StepCommand(c, STEP_IN)
step_next(c) == StepCommand(c, STEP_NEXT)
step_out(c) == StepCommand(c, STEP_OUT)

\* the second statement of a step command: self._run_state = STATE_RUNNING
step_state(c) ==
    /\ cpc[c] = "step_state"
    /\ run_state' = STATE_RUNNING
    /\ cpc' = [cpc EXCEPT ![c] = "proceed"]
    /\ UNCHANGED <<threads, gate, c_scopes, patched, c_fid, c_snap, filename_to_line_to_breakpoint, busy_wait, step_cmd, reason,
                   stack_ctx_entries_deque, stop_on_stack_len, tid_to_stack_list,
                   frame_id_to_tid, evaluations, skip_breakpoints, heap, wrk,
                   c_list, c_bw, c_req, hist>>

\* evaluate: the _EvaluationInfo is built and self._evaluations is read ...
evaluate(c) ==
    /\ c \in threads /\ cpc[c] = "idle"
    /\ \E r \in ReqIds :
         /\ ~requests[r].used
         /\ \A q \in ReqIds : q < r => requests[q].used
         /\ requests' = [requests EXCEPT ![r] =
                [FreeRequest EXCEPT !.used = TRUE,
                                    !.running = (run_state = STATE_RUNNING),
                                    !.after = {q \in ReqIds : requests[q].returned}]]
         /\ c_req' = [c_req EXCEPT ![c] = r]
    /\ c_list' = [c_list EXCEPT ![c] = evaluations]
    /\ cpc' = [cpc EXCEPT ![c] = "eval_append"]
    /\ calls < MaxCalls
    /\ calls' = calls + 1
    /\ UNCHANGED <<threads, gate, c_scopes, patched, c_fid, c_snap, dbg, id_counter, lists, notified, var_store, wrk, c_bw, track, resets, reads>>

\* ... and the request is appended to the list that was read
evaluate_append(c) ==
    /\ cpc[c] = "eval_append"
    /\ LET cl == [c_list EXCEPT ![c] = NoList] IN
         /\ lists' = Collect([lists EXCEPT ![c_list[c]] = Append(@, c_req[c])],
                             LiveLists(evaluations, wEvals, cl))
         /\ c_list' = cl
    /\ requests' = [requests EXCEPT ![c_req[c]].queued = TRUE]
    /\ cpc' = [cpc EXCEPT ![c] = "proceed"]
    /\ UNCHANGED <<threads, gate, c_scopes, patched, c_fid, c_snap, dbg, id_counter, notified, var_store, wrk, c_bw, c_req, hist>>

\* Future.cancel() by the controller that holds the returned _EvaluationInfo
future_cancel(r) ==
    /\ requests[r].returned
    /\ requests[r].future = "pending"
    /\ requests' = [requests EXCEPT ![r].future = "cancelled"]
    /\ calls < MaxCalls
    /\ calls' = calls + 1
    /\ UNCHANGED <<dbg, id_counter, lists, notified, var_store, wrk, ctl, track, resets, reads>>

\* the table with the lines added to those the file already has
SetBreakpoints_Union(table, filename, lines) ==
    [table EXCEPT ![NormFile(filename)] = @ \cup lines]

\* a new table holding only the file being set, stored in place of the old one
SetBreakpoints_Rebuild(table, filename, lines) ==
    [s \in Sources |-> IF s = NormFile(filename) THEN lines ELSE {}]

\* lines 637-642: a new line_to_bp dictionary is stored under the normalised name
SetBreakpoints(table, filename, lines) ==
    [table EXCEPT ![NormFile(filename)] = lines]

set_breakpoints(c, filename, lines) ==
    /\ c \in threads /\ cpc[c] = "idle"
    /\ filename_to_line_to_breakpoint' =
           SetBreakpoints(filename_to_line_to_breakpoint, filename, lines)
    /\ calls < MaxCalls
    /\ calls' = calls + 1
    /\ UNCHANGED <<busy_wait, run_state, step_cmd, reason, stack_ctx_entries_deque,
                   stop_on_stack_len, tid_to_stack_list, frame_id_to_tid, evaluations,
                   skip_breakpoints, heap, wrk, ctl, track, resets, reads>>

\* reset() leaving the breakpoint table as it is
reset_KeepBreakpoints(c) ==
    /\ c \in threads /\ cpc[c] = "idle"
    /\ resets < MaxResets
    /\ busy_wait' = busy_wait + 1
    /\ run_state' = STATE_RUNNING
    /\ step_cmd' = None
    /\ reason' = None
    /\ stack_ctx_entries_deque' = <<>>
    /\ stop_on_stack_len' = 0
    /\ tid_to_stack_list' = NoSnapshot
    /\ frame_id_to_tid' = {}
    /\ LET new == FreshList(LiveLists(evaluations, wEvals, c_list)) IN
         /\ evaluations' = new
         /\ lists' = Collect([lists EXCEPT ![new] = <<>>], LiveLists(new, wEvals, c_list))
    /\ skip_breakpoints' = 0
    /\ track' = NoTrack
    /\ resets' = resets + 1
    /\ calls < MaxCalls
    /\ calls' = calls + 1
    /\ UNCHANGED <<filename_to_line_to_breakpoint, id_counter, notified, requests,
                   var_store, wrk, ctl, reads>>

\* reset() leaving the step command as it is
reset_KeepStepCmd(c) ==
    /\ c \in threads /\ cpc[c] = "idle"
    /\ resets < MaxResets
    /\ filename_to_line_to_breakpoint' = NoBreakpoints
    /\ busy_wait' = busy_wait + 1
    /\ run_state' = STATE_RUNNING
    /\ reason' = None
    /\ stack_ctx_entries_deque' = <<>>
    /\ stop_on_stack_len' = 0
    /\ tid_to_stack_list' = NoSnapshot
    /\ frame_id_to_tid' = {}
    /\ LET new == FreshList(LiveLists(evaluations, wEvals, c_list)) IN
         /\ evaluations' = new
         /\ lists' = Collect([lists EXCEPT ![new] = <<>>], LiveLists(new, wEvals, c_list))
    /\ skip_breakpoints' = 0
    /\ track' = NoTrack
    /\ resets' = resets + 1
    /\ calls < MaxCalls
    /\ calls' = calls + 1
    /\ UNCHANGED <<step_cmd, id_counter, notified, requests, var_store, wrk, ctl, reads>>

\* the body of reset(), lines 453-469, whoever calls it
ResetImpl(c) ==
    /\ c \in threads /\ cpc[c] = "idle"
    /\ resets < MaxResets
    /\ filename_to_line_to_breakpoint' = NoBreakpoints
    /\ busy_wait' = busy_wait + 1
    /\ run_state' = STATE_RUNNING
    /\ step_cmd' = None
    /\ reason' = None
    /\ stack_ctx_entries_deque' = <<>>
    /\ stop_on_stack_len' = 0
    /\ tid_to_stack_list' = NoSnapshot
    /\ frame_id_to_tid' = {}
    /\ LET new == FreshList(LiveLists(evaluations, wEvals, c_list)) IN
         /\ evaluations' = new
         /\ lists' = Collect([lists EXCEPT ![new] = <<>>], LiveLists(new, wEvals, c_list))
    /\ skip_breakpoints' = 0
    /\ track' = NoTrack
    /\ resets' = resets + 1
    /\ calls < MaxCalls
    /\ calls' = calls + 1
    /\ UNCHANGED <<id_counter, notified, requests, var_store, wrk, reads,
                   cpc, c_list, c_bw, c_req, c_fid, c_snap, threads, gate, c_scopes>>

\* reset() called on the debugger by a controller thread
reset(c) == ResetImpl(c) /\ UNCHANGED patched

\* ------------------------------------------------------------- installation
\* patch_execution_context wrapping run_step and registering the callbacks on
\* every call
patch_execution_context_Rewrap(c, new_session) ==
    /\ c \in threads /\ cpc[c] = "idle"
    /\ patched.n < MaxPatches
    /\ patched' = [impl |-> 1, wraps |-> patched.wraps + 1,
                   registered |-> patched.registered + 1, returned |-> 1,
                   new_session |-> new_session, n |-> patched.n + 1]
    /\ IF patched.impl # 0 /\ new_session
       THEN ResetImpl(c)
       ELSE /\ calls < MaxCalls
            /\ calls' = calls + 1
            /\ UNCHANGED <<dbg, heap, wrk, cpc, c_list, c_bw, c_req, c_fid, c_snap,
                           threads, gate, c_scopes, track, resets, reads>>

\* patch_execution_context, lines 716-738: the first call (no impl attribute yet)
\* creates the debugger, registers the four listener callbacks, wraps run_step
\* and stores the instance; a later call resets the stored instance when
\* new_session is true; both return the stored instance
patch_execution_context(c, new_session) ==
    /\ c \in threads /\ cpc[c] = "idle"
    /\ patched.n < MaxPatches
    /\ IF patched.impl = 0
       THEN /\ patched' = [impl |-> 1, wraps |-> patched.wraps + 1,
                           registered |-> patched.registered + 1, returned |-> 1,
                           new_session |-> new_session, n |-> patched.n + 1]
            /\ calls < MaxCalls
            /\ calls' = calls + 1
            /\ UNCHANGED <<dbg, heap, wrk, cpc, c_list, c_bw, c_req, c_fid, c_snap,
                           threads, gate, c_scopes, track, resets, reads>>
       ELSE /\ patched' = [patched EXCEPT !.returned = patched.impl,
                                          !.new_session = new_session,
                                          !.n = @ + 1]
            /\ IF new_session
               THEN ResetImpl(c)
               ELSE /\ calls < MaxCalls
                    /\ calls' = calls + 1
                    /\ UNCHANGED <<dbg, heap, wrk, cpc, c_list, c_bw, c_req, c_fid,
                                   c_snap, threads, gate, c_scopes, track, resets, reads>>

\* ------------------------------------------------------------- controller reads
\* what a read call returns: None, or a list (here the ids it holds)
Returned(val) == [none |-> FALSE, val |-> val]
ReturnedNone == [none |-> TRUE, val |-> <<>>]

\* the ids next_id() has returned so far
IssuedIds == 1 .. (id_counter - 1)

\* get_frames(MAIN_THREAD_ID): None without a snapshot, else its dap_frames (here
\* their ids, innermost first)
GetFrames ==
    IF tid_to_stack_list = NoSnapshot THEN ReturnedNone
    ELSE LET frames == tid_to_stack_list[1].frames
         IN  Returned([i \in DOMAIN frames |-> frames[i].id])

\* the call reads the dictionary once and changes nothing
get_frames(c) ==
    /\ c \in threads /\ cpc[c] = "idle"
    /\ reads < MaxReads * Cardinality(threads)
    /\ reads' = reads + 1
    /\ UNCHANGED <<dbg, heap, wrk, ctl, track, resets, calls>>

\* get_scopes, lines 493-495: the thread of the frame id; None when it has none
get_scopes(c, frame_id) ==
    /\ c \in threads /\ cpc[c] = "idle"
    /\ reads < MaxReads * Cardinality(threads)
    /\ reads' = reads + 1
    /\ IF frame_id \notin frame_id_to_tid
       THEN UNCHANGED <<cpc, c_fid>>
       ELSE /\ cpc' = [cpc EXCEPT ![c] = "gs_stack"]
            /\ c_fid' = [c_fid EXCEPT ![c] = frame_id]
    /\ UNCHANGED <<dbg, heap, wrk, c_list, c_bw, c_req, c_snap, threads, gate, c_scopes, patched,
                   track, resets, calls>>

\* get_scopes, lines 497-499: the snapshot of that thread; None when it is gone
gs_stack(c) ==
    /\ cpc[c] = "gs_stack"
    /\ IF tid_to_stack_list = NoSnapshot
       THEN /\ cpc' = [cpc EXCEPT ![c] = "idle"]
            /\ c_fid' = [c_fid EXCEPT ![c] = 0]
            /\ UNCHANGED c_snap
       ELSE /\ c_snap' = [c_snap EXCEPT ![c] = tid_to_stack_list]
            /\ cpc' = [cpc EXCEPT ![c] = "gs_scopes"]
            /\ UNCHANGED c_fid
    /\ UNCHANGED <<dbg, heap, wrk, c_list, c_bw, c_req, threads, gate, c_scopes, patched, hist>>

\* the two scopes of a keyword frame sharing one variables reference
NewScopes_Same(first_id) == <<first_id, first_id>>

\* _KeywordFrameInfo.get_scopes without cached scopes: two ids are drawn, the one
\* of the Arguments scope first, and the list returned names Variables first
NewScopes(first_id) == <<first_id + 1, first_id>>

\* the frame of frame_id in a _StackInfo has no cached scopes yet
FreshScopes(stack, frame_id) ==
    \E i \in DOMAIN stack[1].frames :
        /\ stack[1].frames[i].id = frame_id
        /\ stack[1].frames[i].kind = "Step"
        /\ stack[1].frames[i].refs = <<>>

\* _StackInfo.get_scopes(frame_id): None for a frame id it does not have, [] for a
\* suite or test frame, the cached scopes of a keyword frame, or new scopes.  The
\* references registered for a frame are kept newest first, so the cached scopes
\* (self._scopes, stored with the registration) are the first two.
StackScopes(stack, frame_id, first_id) ==
    LET frames == stack[1].frames
        found == {i \in DOMAIN frames : frames[i].id = frame_id}
        i == CHOOSE j \in found : TRUE
    IN  IF found = {} THEN ReturnedNone
        ELSE IF frames[i].kind # "Step" THEN Returned(<<>>)
        ELSE IF frames[i].refs = <<>> THEN Returned(NewScopes(first_id))
        ELSE Returned(SubSeq(frames[i].refs, 1, 2))

\* register_variables_reference (twice) and self._scopes = scopes, on that
\* _StackInfo: lines 208-216 with the scopes drawn from first_id
WithScopes(stack, frame_id, first_id) ==
    <<[frames |-> [i \in DOMAIN stack[1].frames |->
                      IF stack[1].frames[i].id = frame_id
                      THEN [stack[1].frames[i] EXCEPT !.refs = NewScopes(first_id) \o @]
                      ELSE stack[1].frames[i]]]>>

\* get_scopes, line 500, on the _StackInfo the controller holds, whether or not the
\* worker has disposed it meanwhile: lines 183-201.  The call returns None, [] or
\* the cached scopes; or, finding self._scopes None, it draws two ids and builds
\* its list `scopes`
gs_scopes(c) ==
    /\ cpc[c] = "gs_scopes"
    /\ IF FreshScopes(c_snap[c], c_fid[c])
       THEN /\ id_counter + 1 <= MaxId
            /\ id_counter' = id_counter + 2
            /\ c_scopes' = [c_scopes EXCEPT ![c] = NewScopes(id_counter)]
            /\ cpc' = [cpc EXCEPT ![c] = "gs_register"]
            /\ UNCHANGED <<c_fid, c_snap>>
       ELSE /\ cpc' = [cpc EXCEPT ![c] = "idle"]
            /\ c_fid' = [c_fid EXCEPT ![c] = 0]
            /\ c_snap' = [c_snap EXCEPT ![c] = NoSnapshot]
            /\ UNCHANGED <<id_counter, c_scopes>>
    /\ UNCHANGED <<dbg, lists, notified, requests, var_store, wrk,
                   c_list, c_bw, c_req, threads, gate, patched, hist>>

\* lines 203-217: the two references are registered on the _StackInfo, the list is
\* stored in self._scopes and returned.  Every thread holding that _StackInfo, and
\* the dictionary if it still has it, sees the change
gs_register(c) ==
    /\ cpc[c] = "gs_register"
    /\ LET new == WithScopes(c_snap[c], c_fid[c], c_scopes[c][2]) IN
         /\ tid_to_stack_list' =
                IF tid_to_stack_list = c_snap[c] THEN new ELSE tid_to_stack_list
         /\ c_snap' = [d \in Controllers |->
                          IF d = c THEN NoSnapshot
                          ELSE IF c_snap[d] = c_snap[c] THEN new
                          ELSE c_snap[d]]
    /\ cpc' = [cpc EXCEPT ![c] = "idle"]
    /\ c_fid' = [c_fid EXCEPT ![c] = 0]
    /\ c_scopes' = [c_scopes EXCEPT ![c] = <<>>]
    /\ UNCHANGED <<filename_to_line_to_breakpoint, busy_wait, run_state, step_cmd, reason,
                   stack_ctx_entries_deque, stop_on_stack_len, frame_id_to_tid, evaluations,
                   skip_breakpoints, heap, wrk, c_list, c_bw, c_req, threads, gate, patched, hist>>

\* get_scopes(frame_id) run without interruption in the current state
GetScopes(frame_id) ==
    IF frame_id \notin frame_id_to_tid THEN ReturnedNone
    ELSE IF tid_to_stack_list = NoSnapshot THEN ReturnedNone
    ELSE StackScopes(tid_to_stack_list, frame_id, id_counter)

\* the variables references registered on a _StackInfo
RefIds(frames) == UNION {Range(frames[i].refs) : i \in DOMAIN frames}

\* get_variables: the children of the reference in a snapshot of the dictionary
\* (here the reference stands for them), None when no snapshot has it
GetVariables(variables_reference) ==
    IF tid_to_stack_list # NoSnapshot
       /\ variables_reference \in RefIds(tid_to_stack_list[1].frames)
    THEN Returned(<<variables_reference>>)
    ELSE ReturnedNone

\* the call copies the dictionary's values once and changes nothing
get_variables(c, variables_reference) ==
    /\ c \in threads /\ cpc[c] = "idle"
    /\ reads < MaxReads * Cardinality(threads)
    /\ reads' = reads + 1
    /\ UNCHANGED <<dbg, heap, wrk, ctl, track, resets, calls>>

\* ------------------------------------------------------------- specification
Worker ==
    \/ start_suite \/ end_suite \/ start_test \/ end_test
    \/ \E f \in RawFiles, l \in 0 .. MaxLine : before_run_step(f, l)
    \/ after_run_step
    \/ br_decide \/ br_branch
    \/ ws_create \/ ws_state \/ ws_reason \/ ws_test \/ ws_wait \/ ws_wake
    \/ ws_load \/ ws_swap \/ ws_iter \/ ws_exit \/ ws_dispose \/ ws_dispose_ids
    \/ ws_unwind \/ ws_unwind_ids
    \/ ev_eval \/ ev_before \/ ev_run \/ ev_after \/ ev_set
    \/ unwind

\* a controller thread going on with the call it is in
Continue(c) ==
    \/ step_state(c) \/ evaluate_append(c) \/ proceed_enter(c) \/ proceed_notify(c)

\* the calls that look at the snapshot, with ids that next_id() has returned, and
\* their later steps
Read(c) ==
    \/ get_frames(c)
    \/ \E i \in IssuedIds : get_scopes(c, i) \/ get_variables(c, i)
    \/ gs_stack(c) \/ gs_scopes(c) \/ gs_register(c)

Call(c) ==
    \/ step_continue(c) \/ step_in(c) \/ step_next(c) \/ step_out(c)
    \/ evaluate(c)
    \/ \E f \in RawFiles, ls \in SUBSET Lines : set_breakpoints(c, f, ls)
    \/ reset(c)

Next ==
    \/ Worker
    \/ \E c \in Controllers : (Continue(c) \/ Call(c))
    \/ \E r \in ReqIds : future_cancel(r)

\* one controller thread
Init == Start /\ threads = {"c1"} /\ patched = Installed
Spec == Init /\ [][Next]_vars

\* two controller threads that step, evaluate and cancel
Call2(c) ==
    \/ step_continue(c) \/ step_in(c) \/ step_next(c) \/ step_out(c)
    \/ evaluate(c)

Next2 ==
    \/ Worker
    \/ \E c \in Controllers : (Continue(c) \/ Call2(c))
    \/ \E r \in ReqIds : future_cancel(r)

Init2 == Start /\ threads = Controllers /\ patched = Installed
TwoControllers == Init2 /\ [][Next2]_vars

\* one controller thread that pauses, resumes, evaluates, resets and looks at the
\* snapshot
Call3(c) ==
    \/ step_continue(c) \/ step_in(c)
    \/ evaluate(c)
    \/ reset(c)
    \/ Read(c)

Next3 ==
    \/ Worker
    \/ \E c \in Controllers : (Continue(c) \/ Call3(c))
    \/ \E r \in ReqIds : future_cancel(r)

Readers == Init /\ [][Next3]_vars

\* one thread calling patch_execution_context, from before the first call; the
\* hooks and the facade exist only once the first call has installed them
Hooks ==
    \/ start_suite \/ end_suite \/ start_test \/ end_test
    \/ \E f \in RawFiles, l \in 0 .. MaxLine : before_run_step(f, l)
    \/ after_run_step
    \/ br_decide \/ br_branch
    \/ ws_create \/ ws_state \/ ws_reason \/ ws_test \/ ws_wait \/ ws_wake
    \/ ws_load \/ ws_swap \/ ws_iter \/ ws_exit \/ ws_dispose \/ ws_dispose_ids

Hooks4 == Hooks \/ unwind

Call4(c) ==
    \/ step_continue(c) \/ step_in(c)
    \/ step_state(c) \/ proceed_enter(c) \/ proceed_notify(c)

Next4 ==
    \/ \E c \in Controllers, new_session \in BOOLEAN : patch_execution_context(c, new_session)
    \/ /\ patched.impl # 0
       /\ \/ Hooks4
          \/ \E c \in Controllers : Call4(c)

Init4 == Start /\ threads = {"c1"} /\ patched = NotInstalled

Patching == Init4 /\ [][Next4]_vars

\* two controller threads that step and call get_scopes, with no evaluation
Call5(c) ==
    \/ Call4(c)
    \/ \E i \in IssuedIds : get_scopes(c, i)
    \/ gs_stack(c) \/ gs_scopes(c) \/ gs_register(c)

Next5 ==
    \/ Hooks
    \/ \E c \in Controllers : Call5(c)

TwoReaders == Init2 /\ [][Next5]_vars

\* ------------------------------------------------------------- BusyWait on its own
\* BusyWait.wait, lines 55-58: self.waited += 1 by the one thread that waits, then
\* the thread blocks on the condition
bw_wait ==
    /\ wpc = "run"
    /\ bw_hist.waits < MaxWaits
    /\ bw' = [bw EXCEPT !.waited = @ + 1]
    /\ bw_hist' = [bw_hist EXCEPT !.waits = @ + 1]
    /\ notified' = FALSE
    /\ wpc' = "bw_blocked"
    /\ UNCHANGED <<dbg, id_counter, lists, requests, var_store,
                   nest, wStep, wReason, wBw, wEvals, wIdx, wReq, wArgs, wOutcome, wStack,
                   cpc, c_list, c_bw, c_req, c_fid, c_snap, c_scopes, threads, patched,
                   c_loaded, hist>>

\* Condition.wait returns once notify_all has reached the thread
bw_wake ==
    /\ wpc = "bw_blocked"
    /\ notified
    /\ notified' = FALSE
    /\ wpc' = "run"
    /\ UNCHANGED <<dbg, id_counter, lists, requests, var_store,
                   nest, wStep, wReason, wBw, wEvals, wIdx, wReq, wArgs, wOutcome, wStack,
                   ctl, hist>>

\* BusyWait.proceed, line 61, first half of `self.proceeded += 1`: the attribute is
\* loaded; another thread can run before the sum is stored
bw_load(c) ==
    /\ c \in threads /\ cpc[c] = "idle"
    /\ calls < MaxCalls
    /\ calls' = calls + 1
    /\ c_loaded' = [c_loaded EXCEPT ![c] = bw.proceeded]
    /\ cpc' = [cpc EXCEPT ![c] = "bw_store"]
    /\ UNCHANGED <<dbg, heap, wrk, c_list, c_bw, c_req, c_fid, c_snap, c_scopes,
                   threads, patched, bw, bw_hist, track, resets, reads>>

\* line 61, second half: the loaded value plus one is stored
bw_store(c) ==
    /\ cpc[c] = "bw_store"
    /\ bw' = [bw EXCEPT !.proceeded = c_loaded[c] + 1]
    /\ c_loaded' = [c_loaded EXCEPT ![c] = 0]
    /\ cpc' = [cpc EXCEPT ![c] = "bw_notify"]
    /\ UNCHANGED <<dbg, heap, wrk, c_list, c_bw, c_req, c_fid, c_snap, c_scopes,
                   threads, patched, bw_hist, hist>>

\* lines 62-63: notify_all under the condition's lock; the call is complete
bw_notify(c) ==
    /\ cpc[c] = "bw_notify"
    /\ notified' = (notified \/ wpc = "bw_blocked")
    /\ bw_hist' = [bw_hist EXCEPT !.proceeds = @ + 1]
    /\ cpc' = [cpc EXCEPT ![c] = "idle"]
    /\ UNCHANGED <<dbg, id_counter, lists, requests, var_store, wrk,
                   c_list, c_bw, c_req, c_fid, c_snap, c_scopes, threads, patched,
                   bw, c_loaded, hist>>

Next6 ==
    \/ bw_wait \/ bw_wake
    \/ \E c \in Controllers : (bw_load(c) \/ bw_store(c) \/ bw_notify(c))

Gate == Init2 /\ [][Next6]_vars

TypeOK ==
    /\ run_state \in {STATE_RUNNING, STATE_PAUSED}
    /\ step_cmd \in {None, STEP_IN, STEP_NEXT, STEP_OUT}
    /\ reason \in {None, REASON_BREAKPOINT, REASON_STEP}
    /\ Len(stack_ctx_entries_deque) <= MaxDepth + 1
    /\ id_counter \in 1 .. MaxId + 1
    /\ evaluations \in ListIds
    /\ wEvals \in ListIds \cup {NoList}

\* ------------------------------------------------------------- properties
AllIdle == \A c \in Controllers : cpc[c] = "idle"
\* the step whose hook is being decided sits on a line the table held at the lookup
BreakpointHit == wStep.lineno \in wStep.lines

\* C1: once a resume command (step_continue, step_in, step_next, step_out) issued
\* during a pause has finished all its writes and its proceed(), the worker is not
\* left blocked in BusyWait.wait() with no notification on its way: the command
\* releases the worker from the pause loop.
C1_ResumeReleasesWorker ==
    ~(/\ track.phase = "issued"
      /\ AllIdle
      /\ run_state = STATE_RUNNING
      /\ wpc = "ws_blocked"
      /\ ~notified)

\* C2: outside an evaluation the skip counter is 0, so every hook of a step with a
\* line reaches the decision; when the line is a breakpoint of the step's source
\* the reason is BREAKPOINT whatever the step command and the depth, a STEP reason
\* is found only when no breakpoint matches, a reason found leads into
\* wait_suspended, and the reason recorded during the pause is the one found.
C2_BreakpointWins ==
    /\ (wpc = "run" => skip_breakpoints = 0)
    /\ (wpc = "br_branch" =>
           /\ (BreakpointHit => wReason = REASON_BREAKPOINT)
           /\ (wReason = REASON_STEP => ~BreakpointHit))
    /\ (wpc \in {"ws_create", "ws_state", "ws_reason"} => wReason # None)
    /\ (InPauseLoop /\ tid_to_stack_list # NoSnapshot => reason = wReason)

\* a breakpoint hit decided under STEP_NEXT deeper than the stepping depth
C2_Witness ==
    /\ wpc = "ws_test"
    /\ reason = REASON_BREAKPOINT
    /\ step_cmd = STEP_NEXT
    /\ Len(stack_ctx_entries_deque) > stop_on_stack_len
    /\ stop_on_stack_len > 0

\* the hook being decided is the first one to find a reason since the worker left
\* the pause in which cmd was issued, and no command was issued since
NextPauseAfter(cmd) ==
    /\ wpc = "br_branch"
    /\ track.phase = "resumed"
    /\ step_cmd = cmd
    /\ wReason # None

\* C3 (as stated): after step_next() issued while paused at depth D, the next pause,
\* whatever its stop reason, is at a hook of depth at most D.
C3_NextPauseNotDeeper ==
    NextPauseAfter(STEP_NEXT) => Len(stack_ctx_entries_deque) <= track.depth

\* C3 (amended): after step_next() issued while paused at depth D, the next pause
\* with reason STEP is at a hook of depth at most D; a breakpoint still pauses at
\* any depth.
C3_NextStepPauseNotDeeper ==
    NextPauseAfter(STEP_NEXT) /\ wReason = REASON_STEP
        => Len(stack_ctx_entries_deque) <= track.depth

\* a STEP pause decided after step_next, at the depth of the pause it was issued in
C3_Witness ==
    /\ NextPauseAfter(STEP_NEXT)
    /\ wReason = REASON_STEP
    /\ Len(stack_ctx_entries_deque) = track.depth

\* C4 (as stated): after step_out() issued while paused at depth D, the next pause
\* is at a hook of depth at most D - 1.
C4_NextPauseOutside ==
    NextPauseAfter(STEP_OUT) => Len(stack_ctx_entries_deque) <= track.depth - 1

\* C4 (amended): after step_out() issued while paused at depth D, the next pause
\* with reason STEP is at a hook of depth at most D - 1; a breakpoint still pauses
\* at any depth.
C4_NextStepPauseOutside ==
    NextPauseAfter(STEP_OUT) /\ wReason = REASON_STEP
        => Len(stack_ctx_entries_deque) <= track.depth - 1

\* a STEP pause decided after step_out, one level above the pause it was issued in
C4_Witness ==
    /\ NextPauseAfter(STEP_OUT)
    /\ wReason = REASON_STEP
    /\ Len(stack_ctx_entries_deque) = track.depth - 1

\* the worker has left the pause in which step_in() was issued, no command was
\* issued since and no hook has been decided since
AfterStepIn == track.phase = "resumed" /\ step_cmd = STEP_IN

\* C5 (as stated): after step_in() issued while paused, the very next
\* before_run_step call made outside an evaluation goes on to the pause decision
\* (and pauses there), whatever the step.
C5_VeryNextHookPauses ==
    [][(/\ AfterStepIn
        /\ wpc = "run"
        /\ Len(stack_ctx_entries_deque') = Len(stack_ctx_entries_deque) + 1
        /\ IsStepEntry(Last(stack_ctx_entries_deque')))
       => wpc' = "br_decide"]_vars

\* C5 (amended): after step_in() issued while paused, the next before_run_step call
\* made outside an evaluation on a step that has lineno and source finds a reason
\* to pause, whatever the depth and the line: STEP when no breakpoint matches.
C5_NextLinedHookPauses ==
    wpc = "br_branch" /\ AfterStepIn
        => /\ wReason # None
           /\ (~BreakpointHit => wReason = REASON_STEP)

\* a STEP pause decided after step_in, below the pause it was issued in
C5_Witness ==
    /\ wpc = "br_branch"
    /\ AfterStepIn
    /\ wReason = REASON_STEP
    /\ Len(stack_ctx_entries_deque) > track.depth

\* the requests the iteration of the worker's for statement has yet to reach
ToIterate ==
    IF wEvals = NoList THEN {}
    ELSE {lists[wEvals][i] : i \in (wIdx + 1) .. Len(lists[wEvals])}

\* request r was appended and is pending, and sits neither in the list that
\* self._evaluations names, nor ahead of the worker's iteration, nor in the
\* worker's hands: no thread will ever fulfil it
LeftBehind(r) ==
    /\ requests[r].queued
    /\ requests[r].future = "pending"
    /\ r # wReq
    /\ r \notin Range(lists[evaluations])
    /\ r \notin ToIterate

\* C6: in every interleaving of evaluate()'s append with the worker's swap and
\* drain (no reset() involved), no request is fulfilled twice and none is left in
\* a list the worker has finished iterating.
C6_FulfilledExactlyOnce ==
    \A r \in ReqIds :
        /\ requests[r].fulfils <= 1
        /\ (resets = 0 => ~LeftBehind(r))

\* C7: a request whose evaluate() call began while RunState was RUNNING and has
\* returned is not sitting pending in the queue while the worker, paused since, is
\* blocked in wait() with no notification on its way and no controller call in
\* progress: the pause alone gets it resolved.
C7_ResolvedAtNextPause ==
    ~(\E r \in ReqIds :
        /\ requests[r].running
        /\ requests[r].returned
        /\ requests[r].future = "pending"
        /\ r \in Range(lists[evaluations])
        /\ run_state = STATE_PAUSED
        /\ wpc = "ws_blocked"
        /\ ~notified
        /\ AllIdle)

\* C8: the proceed() of an evaluate() that was called while RunState was RUNNING,
\* and that finds RunState still RUNNING (no reset() involved), releases no blocked
\* worker: the worker goes on exactly as it would have without the call.
C8_EvaluateReleasesNobody ==
    [][\A c \in Controllers :
          (/\ cpc[c] = "notify" /\ cpc'[c] = "idle"
           /\ c_req[c] # NoReq
           /\ requests[c_req[c]].running
           /\ run_state = STATE_RUNNING
           /\ resets = 0)
          => notified' = notified]_vars

\* C9: when the worker takes up a request, every request whose evaluate() call had
\* returned before this one's call began has been fulfilled.
C9_SubmissionOrder ==
    wReq # NoReq => \A q \in requests[wReq].after : requests[q].future # "pending"

\* C10: no exception leaves _EvaluationInfo.evaluate and unwinds wait_suspended.
C10_NothingRaisedIntoPauseLoop == wpc # "ws_unwind"

\* the outcome the evaluation of expression on frame frame_id is to have: an
\* unknown frame id, then the kind of the frame, then the variable, then the call
ReferenceOutcome(frame_id, expression) ==
    IF tid_to_stack_list = NoSnapshot
       \/ frame_id \notin FrameIds(tid_to_stack_list[1].frames)
    THEN Error("InvalidFrameIdError")
    ELSE LET frames == tid_to_stack_list[1].frames
             i == CHOOSE j \in DOMAIN frames : frames[j].id = frame_id
         IN  IF frames[i].kind # "Step" THEN Error("InvalidFrameTypeError")
             ELSE IF expression = "var" THEN Result(var_store)
             ELSE IF expression = "kw" /\ i = 1 THEN Invoke
             ELSE Error("UnableToEvaluateError")

\* C11: _do_eval ends with the outcome of the reference order: InvalidFrameId,
\* InvalidFrameType, the value of the variable, the call of the step on the topmost
\* frame, UnableToEvaluate for everything else.
C11_OutcomeAsSpecified ==
    [][wpc = "ev_eval" /\ wpc' # "ev_eval"
       => wOutcome' = ReferenceOutcome(wArgs'.frame_id, wArgs'.expression)]_vars


\* C12: a stack snapshot exists exactly when RunState is PAUSED, in every state
\* (the dictionary holds at most the snapshot of MAIN_THREAD_ID).
C12_SnapshotIffPaused ==
    (tid_to_stack_list # NoSnapshot) <=> (run_state = STATE_PAUSED)

\* C13: with hook calls only (no reset()), between hooks the live depth is the
\* number of pushes minus the number of pops, which is the nesting the interpreter
\* is in, and the snapshot built for a pause has as many frames as the live
\* sequence has entries.
C13_DepthAndFrameCount ==
    resets = 0 =>
        /\ (wpc = "run" => Len(stack_ctx_entries_deque) = Len(nest))
        /\ (wpc = "ws_state" =>
               Len(tid_to_stack_list[1].frames) = Len(stack_ctx_entries_deque))


\* C14: the worker reads the step command only at the decision of a hook and after
\* its pause loop has ended; at neither point is RunState PAUSED, so a command whose
\* first write is done and whose second is not is never acted on by the worker,
\* also when an evaluate() wakes the worker between the two writes.
C14_CommandReadOnlyWhenRunning ==
    wpc \in {"br_decide", "ws_exit"} => run_state = STATE_RUNNING

\* a command has written the step command and not yet RunState, and the worker,
\* woken by an evaluation meanwhile, has tested RunState and goes back to wait
C14_Witness ==
    /\ \E c \in Controllers : cpc[c] = "step_state"
    /\ step_cmd # None
    /\ run_state = STATE_PAUSED
    /\ wpc = "ws_wait"
    /\ \E r \in ReqIds : requests[r].fulfils = 1


\* C15: a step command called while RunState is RUNNING and the worker is between
\* hooks changes the pause decision of no later hook: whatever the file, the line
\* and the depth of the step, the reason found is the one found without the call.
C15_StepWhileRunningIsNoOp ==
    [][\A c \in Controllers :
          (/\ cpc[c] = "idle" /\ cpc'[c] = "step_state"
           /\ run_state = STATE_RUNNING
           /\ wpc = "run")
          => \A f \in RawFiles, l \in Lines, d \in 1 .. MaxDepth :
                Decide(filename_to_line_to_breakpoint[NormFile(f)], l, step_cmd', d,
                       stop_on_stack_len)
                = Decide(filename_to_line_to_breakpoint[NormFile(f)], l, step_cmd, d,
                         stop_on_stack_len)]_vars


\* the state the claim says reset() leaves
ResetState ==
    /\ run_state = STATE_RUNNING
    /\ step_cmd = None
    /\ stop_on_stack_len = 0
    /\ filename_to_line_to_breakpoint = NoBreakpoints
    /\ stack_ctx_entries_deque = <<>>
    /\ tid_to_stack_list = NoSnapshot
    /\ lists[evaluations] = <<>>

\* C16: every reset(), from whatever state it is called in, leaves RunState RUNNING,
\* no step command, stop_on_stack_len 0, an empty breakpoint table, an empty live
\* sequence, no snapshot and an empty evaluation queue; so a reset() called in the
\* state a reset() left changes none of them.
C16_ResetIdempotent ==
    [][resets' = resets + 1
       => /\ ResetState'
          /\ (ResetState =>
                 /\ run_state' = run_state
                 /\ step_cmd' = step_cmd
                 /\ stop_on_stack_len' = stop_on_stack_len
                 /\ filename_to_line_to_breakpoint' = filename_to_line_to_breakpoint
                 /\ stack_ctx_entries_deque' = stack_ctx_entries_deque
                 /\ tid_to_stack_list' = tid_to_stack_list
                 /\ lists'[evaluations'] = lists[evaluations])]_vars

\* reset() called twice after a call that made the worker pause, the worker still
\* blocked in the pause it was in
C16_Witness ==
    /\ resets = 2
    /\ calls = 3
    /\ wpc = "ws_blocked"
    /\ ResetState


\* the worker is outside wait_suspended
PauseOver == wpc \in {"run", "br_decide", "br_branch", "raise"}

\* the frame ids and variables references of the snapshot that exists now
CurrentIds ==
    IF tid_to_stack_list = NoSnapshot THEN {}
    ELSE FrameIds(tid_to_stack_list[1].frames) \cup RefIds(tid_to_stack_list[1].frames)

IdsOrdered(stack) ==
    LET frames == stack[1].frames IN
      /\ \A i, j \in DOMAIN frames : i < j => frames[i].id < frames[j].id
      /\ \A i, j \in DOMAIN frames :
            Range(frames[i].refs) \cap ({frames[j].id} \cup
                (IF i = j THEN {} ELSE Range(frames[j].refs))) = {}
      /\ \A i \in DOMAIN frames : frames[i].refs # <<>> => frames[i].refs[1] # frames[i].refs[2]

\* C18: the counter never goes back, also not at reset(); every frame id that
\* appears in a snapshot was drawn in that step from the counter, and every
\* variables reference that appears in it was drawn from the counter by the
\* get_scopes call that registers it and was in no snapshot before, so it equals no
\* id issued before, in this pause or an earlier one; and in every snapshot the ids
\* increase from the innermost frame to the outermost.
C18_IdsNeverReused ==
    [][/\ id_counter' >= id_counter
       /\ \A i \in CurrentIds' \ CurrentIds :
             \/ id_counter <= i /\ i < id_counter'
             \/ \E c \in Controllers : cpc[c] = "gs_register" /\ i \in Range(c_scopes[c])
       /\ \A c \in Controllers :
             /\ (cpc[c] = "gs_scopes" /\ cpc'[c] = "gs_register")
                    => /\ c_scopes'[c] = <<id_counter + 1, id_counter>>
                       /\ id_counter' = id_counter + 2
             /\ cpc'[c] = "gs_register"
                    => /\ Range(c_scopes'[c]) \subseteq IssuedIds'
                       /\ Range(c_scopes'[c]) \cap CurrentIds' = {}
       /\ tid_to_stack_list' # NoSnapshot => IdsOrdered(tid_to_stack_list')]_vars

\* a snapshot built after a reset(), while the ids of an earlier pause and the
\* variables references drawn in it were issued before that reset()
C18_Witness ==
    /\ tid_to_stack_list # NoSnapshot
    /\ resets = 1
    /\ step_cmd = None
    /\ calls = 3
    /\ reads = 1
    /\ Cardinality(IssuedIds \ CurrentIds) >= 4


\* a step at (source, lineno) is a breakpoint of the table: the hook's lookup and
\* decision with no step command
IsBreakpoint(table, source, lineno) ==
    Decide(table[NormFile(source)], lineno, None, 1, 0) = REASON_BREAKPOINT

\* C19: from every table the debugger reaches, set_breakpoints(f, ls) leaves a table
\* in which a step of f's file at line L is a breakpoint exactly when L is in ls
\* (so earlier lines absent from ls are gone and an empty ls clears the file), and
\* a step of any other file is a breakpoint exactly when it was one before.
C19_ReplacesLinesOfSource ==
    \A f \in RawFiles, ls \in SUBSET Lines, source \in RawFiles, L \in Lines :
        LET after == SetBreakpoints(filename_to_line_to_breakpoint, f, ls) IN
          IsBreakpoint(after, source, L)
              <=> IF NormFile(source) = NormFile(f) THEN L \in ls
                  ELSE IsBreakpoint(filename_to_line_to_breakpoint, source, L)

\* the hook of a step of a.robot found its line in the table; since then a call
\* has cleared a.robot, while b.robot keeps the line another call gave it
C19_Witness ==
    /\ wpc = "br_branch"
    /\ NormFile(wStep.source) = "a.robot"
    /\ BreakpointHit
    /\ filename_to_line_to_breakpoint["a.robot"] = {}
    /\ filename_to_line_to_breakpoint["b.robot"] # {}


\* the step is a call of start_suite, start_test, end_suite, end_test or
\* after_run_step made by the interpreter between steps
BoundaryHook ==
    /\ wpc = "run"
    /\ nest' # nest
    /\ ~(Len(nest') > Len(nest) /\ Last(nest') = "Step")

\* C20: a call of start_suite, start_test, end_suite, end_test or after_run_step
\* pushes or pops one entry (a pop of an empty sequence raises) and changes nothing
\* else of the debugger: it leaves RunState alone and the worker neither blocked
\* nor inside wait_suspended, also when it is the after_run_step of a step invoked
\* by an evaluation.  RunState becomes PAUSED only in wait_suspended, and the
\* worker is blocked on the gate only inside the hook call of a step.
C20_SuspendsOnlyBeforeStep ==
    [][/\ BoundaryHook =>
             /\ wpc' \in {"run", "raise"}
             /\ notified' = notified
             /\ IF Len(nest') > Len(nest)
                THEN stack_ctx_entries_deque' = Append(stack_ctx_entries_deque, Last(nest'))
                ELSE IF stack_ctx_entries_deque = <<>>
                     THEN wpc' = "raise" /\ UNCHANGED stack_ctx_entries_deque
                     ELSE stack_ctx_entries_deque' = ButLast(stack_ctx_entries_deque)
             /\ UNCHANGED <<filename_to_line_to_breakpoint, busy_wait, run_state, step_cmd,
                            reason, stop_on_stack_len, tid_to_stack_list, frame_id_to_tid,
                            evaluations, skip_breakpoints>>
       /\ wpc = "ev_after" /\ wpc' # wpc =>
             /\ wpc' = "ev_set"
             /\ UNCHANGED <<run_state, notified, busy_wait>>
       /\ run_state' = STATE_PAUSED /\ run_state # STATE_PAUSED => wpc = "ws_state"
       /\ wpc' = "ws_blocked" => nest' # <<>> /\ Last(nest') = "Step"]_vars

\* with STEP_IN issued in a pause and the worker released from it, the step has
\* ended and a test has started, and the worker runs on without a pause
C20_Witness ==
    /\ wpc = "run"
    /\ AfterStepIn
    /\ nest = <<"Suite", "Test">>
    /\ run_state = STATE_RUNNING
    /\ tid_to_stack_list = NoSnapshot


\* the worker is executing an evaluation request
Evaluating == wpc \in {"ev_eval", "ev_before", "ev_run", "ev_after", "ev_set"}

\* C21: the worker executes an evaluation request only while RunState is PAUSED
\* (no reset() involved).
C21_EvaluatedOnlyWhilePaused ==
    resets = 0 /\ Evaluating => run_state = STATE_PAUSED


\* C22: reset() leaves RunState RUNNING, no step command, stop_on_stack_len 0 and an
\* empty breakpoint table; and a hook decided after a reset(), while the table is
\* still empty and no step command has been set, finds no reason to pause and
\* returns without entering wait_suspended.
C22_ResetClearsStepping ==
    [][/\ resets' = resets + 1 =>
             /\ run_state' = STATE_RUNNING
             /\ step_cmd' = None
             /\ stop_on_stack_len' = 0
             /\ filename_to_line_to_breakpoint' = NoBreakpoints
       /\ (/\ resets >= 1
           /\ wpc = "br_decide" /\ wpc' = "br_branch"
           /\ filename_to_line_to_breakpoint = NoBreakpoints
           /\ step_cmd = None) => wReason' = None
       /\ wpc = "br_branch" /\ wReason = None /\ wpc' # wpc => wpc' = "run"]_vars

\* the worker had paused and was resumed with STEP_IN; reset() was called, and the
\* hook of the next step finds nothing to pause for
C22_Witness ==
    /\ wpc = "br_branch"
    /\ wReason = None
    /\ resets = 1
    /\ calls = 3
    /\ id_counter > 1
    /\ step_cmd = None


\* the reference decision: a breakpoint first, then STEP_IN, then STEP_NEXT and
\* STEP_OUT held to the stepping depth
ReferenceDecision(is_breakpoint, cmd, depth, stop) ==
    CASE is_breakpoint -> REASON_BREAKPOINT
      [] ~is_breakpoint /\ cmd = STEP_IN -> REASON_STEP
      [] ~is_breakpoint /\ cmd \in {STEP_NEXT, STEP_OUT} /\ depth <= stop -> REASON_STEP
      [] OTHER -> None

\* C23 (as stated): every before_run_step call pauses as the reference decision
\* says, so a call that returns at once does so only when the reference decision
\* for its step command and depth is not to pause.
C23_EveryHookIsReference ==
    [][(/\ wpc = "run" /\ wpc' = "run"
        /\ Len(stack_ctx_entries_deque') = Len(stack_ctx_entries_deque) + 1
        /\ IsStepEntry(Last(stack_ctx_entries_deque')))
       => ReferenceDecision(FALSE, step_cmd, Len(stack_ctx_entries_deque'),
                            stop_on_stack_len) = None]_vars

\* C23 (amended): for a step that has lineno and source, outside an evaluation,
\* the reason a hook finds is the reference decision on (breakpoint match,
\* step command, live depth, stop_on_stack_len), and on leaving the pause loop
\* stop_on_stack_len becomes the live depth for STEP_NEXT, the live depth minus one
\* for STEP_OUT, and stays as it is for STEP_IN and continue.
C23_DecisionIsReference ==
    [][/\ wpc = "br_decide" /\ wpc' = "br_branch" =>
             wReason' = ReferenceDecision(
                 wStep.lineno \in filename_to_line_to_breakpoint[NormFile(wStep.source)],
                 step_cmd, Len(stack_ctx_entries_deque), stop_on_stack_len)
       /\ wpc = "ws_exit" /\ wpc' = "ws_dispose" =>
             stop_on_stack_len' =
                 CASE step_cmd = STEP_NEXT -> Len(stack_ctx_entries_deque)
                   [] step_cmd = STEP_OUT -> Len(stack_ctx_entries_deque) - 1
                   [] OTHER -> stop_on_stack_len]_vars

\* a hook pauses for STEP_OUT at a depth within the stepping depth that the end of
\* the previous pause set to one less than the depth of that pause
C23_Witness ==
    /\ NextPauseAfter(STEP_OUT)
    /\ wReason = REASON_STEP
    /\ stop_on_stack_len = track.depth - 1
    /\ Len(stack_ctx_entries_deque) <= stop_on_stack_len
    /\ ~BreakpointHit


\* C24: a hook call made by the step of an evaluation pushes its entry and never
\* pauses; the skip counter is never negative and is 0 whenever the worker is not
\* executing a request; and (no reset() involved) whenever the worker is in the
\* pause loop and not inside the step of an evaluation, the live depth is the depth
\* the pause began at.
C24_ReentrantHooksIgnored ==
    /\ skip_breakpoints >= 0
    /\ (~Evaluating => skip_breakpoints = 0)
    /\ (Evaluating => skip_breakpoints = 1)
    /\ (resets = 0 /\ InPauseLoop /\ ~InInvokedStep
           => Len(stack_ctx_entries_deque) = Len(nest))
    /\ (resets = 0 /\ InInvokedStep
           => /\ Len(stack_ctx_entries_deque) = Len(nest) + 1
              /\ Last(stack_ctx_entries_deque) = "Step")


\* C25: the stepping decision of a before-step hook consumes the step command:
\* once the hook has decided, the step command is NONE.
C25_DecisionClearsStepCmd ==
    [][(wpc = "br_decide" /\ wpc' = "br_branch") => step_cmd' = None]_vars


\* C26: the worker leaves the pause loop only through the loop test seeing RunState
\* RUNNING; a worker step inside the loop taken while RunState is PAUSED stays in the
\* loop, leaves RunState, the stop reason and the snapshot as they were, and the
\* loop test seeing PAUSED leads back to the blocking wait().
C26_WakeWhilePausedBlocksAgain ==
    [][/\ (wpc = "ws_test" /\ wpc' # wpc)
             => wpc' = (IF run_state = STATE_PAUSED THEN "ws_wait" ELSE "ws_exit")
       /\ (wpc = "ws_wait" /\ wpc' # wpc) => wpc' = "ws_blocked"
       /\ (InPauseLoop /\ wpc # "ws_test" /\ wpc' # wpc)
             => /\ InPauseLoop'
                /\ UNCHANGED <<run_state, reason, tid_to_stack_list>>]_vars


\* C27: RunState changes only from RUNNING to PAUSED by the worker entering a pause
\* it decided on, and from PAUSED to RUNNING by a step command or reset(); and
\* whenever RunState is PAUSED the worker is inside wait_suspended's pause loop.
C27_RunStateTransitions ==
    [][/\ (run_state = STATE_RUNNING /\ run_state' = STATE_PAUSED)
             => (wpc = "ws_state" /\ wpc' = "ws_reason" /\ wReason # None)
       /\ (run_state = STATE_PAUSED /\ run_state' = STATE_RUNNING)
             => \/ resets' = resets + 1
                \/ \E c \in threads : cpc[c] = "step_state" /\ cpc'[c] = "proceed"
       /\ run_state' = STATE_PAUSED => (InPauseLoop' \/ wpc' = "ws_reason")]_vars


\* C28: the first hook to find a stop reason after the worker left the pause in
\* which step_continue() was issued, no step command having been issued since, is
\* at a breakpoint of its source: its reason is BREAKPOINT, never STEP.
C28_ContinuePausesOnlyOnBreakpoint ==
    NextPauseAfter(None) => (wReason = REASON_BREAKPOINT /\ BreakpointHit)

\* a breakpoint pause decided after step_continue resumed the worker
C28_Witness ==
    /\ NextPauseAfter(None)
    /\ wReason = REASON_BREAKPOINT
    /\ Len(stack_ctx_entries_deque) > track.depth


\* C29: the breakpoint table changes only in a controller call; set_breakpoints
\* replaces the line set of one source in a single step and leaves the line set of
\* every other source as it was; and the worker's lookup takes, in one read, the
\* whole line set its normalised source has at that moment (the old one before the
\* step of set_breakpoints, the new one after it) without changing the table.
C29_LookupSeesWholeEntry ==
    [][/\ filename_to_line_to_breakpoint' # filename_to_line_to_breakpoint
             => /\ calls' = calls + 1
                /\ wpc' = wpc /\ wStep' = wStep
                /\ \/ resets' = resets + 1
                   \/ \E s \in Sources :
                        \A o \in Sources \ {s} :
                            filename_to_line_to_breakpoint'[o] = filename_to_line_to_breakpoint[o]
       /\ (wpc = "br_decide" /\ wpc' = "br_branch")
             => /\ wStep'.lines = filename_to_line_to_breakpoint[NormFile(wStep.source)]
                /\ wReason' = Decide(wStep'.lines, wStep.lineno, step_cmd,
                                     Len(stack_ctx_entries_deque), stop_on_stack_len)
                /\ UNCHANGED filename_to_line_to_breakpoint
       /\ (wpc = "br_branch" /\ wpc' = wpc) => wStep'.lines = wStep.lines]_vars

\* the worker has looked up the old line set of a.robot, set_breakpoints has since
\* emptied that entry, and the entry of b.robot is still the one set before
C29_Witness ==
    /\ wpc = "br_branch"
    /\ resets = 0
    /\ wStep.source = "./a.robot"
    /\ wStep.lines = {1}
    /\ filename_to_line_to_breakpoint["a.robot"] = {}
    /\ filename_to_line_to_breakpoint["b.robot"] = {1}


\* the kind of frame a live entry stands for (a step entry is a Step frame whether
\* or not its keyword has a line number)
EntryKind(entry) == IF IsStepEntry(entry) THEN "Step" ELSE entry

\* C30: in the snapshot just built for a pause (no reset() involved), frame i, counted
\* from 0, is of the kind of live entry number depth - 1 - i, and frame 0 is the
\* step whose hook paused.
C30_FramesInnermostFirst ==
    (wpc = "ws_state" /\ resets = 0) =>
        LET frames == tid_to_stack_list[1].frames
            depth == Len(stack_ctx_entries_deque)
        IN  /\ frames # <<>>
            /\ frames[1].kind = "Step"
            /\ \A i \in 0 .. Len(frames) - 1 :
                  /\ depth - i >= 1
                  /\ EntryKind(frames[i + 1].kind)
                        = EntryKind(stack_ctx_entries_deque[depth - i])


\* the frame of frame_id in a _StackInfo
FrameOf(stack, frame_id) ==
    LET frames == stack[1].frames
    IN  frames[CHOOSE i \in DOMAIN frames : frames[i].id = frame_id]

\* get_variables finds the reference in the snapshot (and so returns a list)
Registered(stack, ref) == stack # NoSnapshot /\ ref \in RefIds(stack[1].frames)

\* C31: a get_scopes call that reaches the current snapshot with one of its frames
\* returns the empty list for a suite or test frame and two scopes with two distinct
\* variables references for a keyword frame, and get_variables on each of the two
\* references then returns a list; while RunState is PAUSED and the snapshot is
\* there, every reference registered on it returns a list, and get_scopes on each
\* of its frames returns a list.
C31_ScopesAndVariables ==
    [][/\ \A c \in threads :
            (/\ cpc[c] \in {"gs_scopes", "gs_register"} /\ cpc'[c] = "idle"
             /\ c_snap[c] = tid_to_stack_list
             /\ c_fid[c] \in FrameIds(c_snap[c][1].frames))
            => LET r == IF cpc[c] = "gs_register" THEN Returned(c_scopes[c])
                        ELSE StackScopes(c_snap[c], c_fid[c], id_counter)
                   kind == FrameOf(c_snap[c], c_fid[c]).kind
               IN  /\ ~r.none
                   /\ kind # "Step" => r.val = <<>>
                   /\ kind = "Step" =>
                         /\ Len(r.val) = 2
                         /\ r.val[1] # r.val[2]
                         /\ \A i \in 1 .. 2 : Registered(tid_to_stack_list', r.val[i])
       /\ (run_state' = STATE_PAUSED /\ tid_to_stack_list' # NoSnapshot)
            => /\ \A ref \in RefIds(tid_to_stack_list'[1].frames) :
                      ~(GetVariables(ref)').none
               /\ \A id \in FrameIds(tid_to_stack_list'[1].frames) :
                      ~(GetScopes(id)').none]_vars

\* the worker is paused and get_scopes has registered the two references of the
\* keyword frame it stopped in
C31_Witness ==
    /\ Paused
    /\ tid_to_stack_list # NoSnapshot
    /\ Len(tid_to_stack_list[1].frames) >= 2
    /\ tid_to_stack_list[1].frames[1].kind = "Step"
    /\ Len(tid_to_stack_list[1].frames[1].refs) = 2


\* a step of get_frames, get_scopes or get_variables
ReadStep ==
    \/ reads' = reads + 1
    \/ \E c \in threads : cpc[c] \in {"gs_stack", "gs_scopes", "gs_register"} /\ cpc'[c] # cpc[c]

\* C32: every step of get_frames, get_scopes and get_variables leaves RunState, the
\* step command, the breakpoint table, the live entries, the evaluation queue, the
\* snapshot with its registered variables references and the id counter unchanged.
C32_ReadsArePure ==
    [][ReadStep => UNCHANGED <<run_state, step_cmd, filename_to_line_to_breakpoint,
                               stack_ctx_entries_deque, evaluations, lists,
                               tid_to_stack_list, id_counter>>]_vars


C34_PatchedOnce ==
    [][/\ patched.impl # 0 =>
             /\ patched'.impl = patched.impl
             /\ patched'.wraps = patched.wraps
             /\ patched'.registered = patched.registered
       /\ patched'.n = patched.n + 1 =>
             /\ patched'.returned = patched'.impl
             /\ patched'.wraps = 1 /\ patched'.registered = 1
             /\ patched.impl # 0 => (resets' = resets + 1 <=> patched'.new_session)
             /\ patched.impl = 0 => UNCHANGED <<dbg, resets>>
       /\ resets' # resets => patched'.n = patched.n + 1]_vars

\* a second call, with new_session true, has returned the installed debugger and
\* reset it while the worker sits in a pause; run_step is still wrapped once
C34_Witness ==
    /\ patched.n = 2
    /\ patched.new_session
    /\ patched.returned = 1
    /\ patched.wraps = 1
    /\ resets = 1
    /\ wpc = "ws_blocked"


\* C35: a worker blocked in wait() can still be released: it has been notified, or
\* it is blocked on the gate the debugger holds (the one a later proceed() will
\* notify), or a controller inside proceed() holds the gate it is blocked on.
C35_BlockedWorkerCanBeReleased ==
    wpc = "ws_blocked" =>
        \/ notified
        \/ wBw = busy_wait
        \/ \E c \in threads : cpc[c] = "notify" /\ c_bw[c] = wBw


\* the requests the worker will still come to: those in the debugger's queue, and
\* those of the list the worker is iterating that it has not taken yet or is executing
Reachable(evals, wlist, ls, idx, req) ==
    (IF evals = NoList THEN {} ELSE Range(ls[evals]))
        \cup (IF wlist = NoList THEN {}
              ELSE {ls[wlist][i] : i \in {j \in DOMAIN ls[wlist] : j > idx}})
        \cup ({req} \ {NoReq})

\* C36: a reset() loses no request: every request with a pending future that the
\* worker would still have come to before the call, it still comes to after it.
C36_ResetKeepsQueuedRequests ==
    [][resets' = resets + 1 =>
          \A r \in Reachable(evaluations, wEvals, lists, wIdx, wReq) :
              requests[r].future = "pending"
                  => r \in Reachable(evaluations', wEvals', lists', wIdx', wReq')]_vars


\* C37: every end_suite, end_test and after_run_step finds the live sequence
\* non-empty with the entry of its matching start hook on top.
C37_PopFindsMatchingEntry ==
    [][(wpc = "run" /\ nest # <<>> /\ nest' = ButLast(nest))
          => /\ stack_ctx_entries_deque # <<>>
             /\ EntryKind(Last(stack_ctx_entries_deque)) = Last(nest)
             /\ wpc' = "run"]_vars


\* C38: with hook calls only (no reset()), whenever no wrapped run_step call is in
\* its before-step hook, the live depth is the nesting the interpreter is in: each
\* wrapped call that has ended, normally or with an exception, has popped what it
\* pushed.
C38_WrapperBalanced ==
    (resets = 0 /\ wpc \in {"run", "raise"})
        => Len(stack_ctx_entries_deque) = Len(nest)


\* C39: the references of a keyword frame are allocated once in a pause: a
\* get_scopes call that registers the scopes it built on the current snapshot finds
\* no scopes registered for that frame, so no other caller has been given other
\* references for it.
C39_ScopesAllocatedOnce ==
    [][\A c \in threads :
          (/\ cpc[c] = "gs_register" /\ cpc'[c] = "idle"
           /\ c_snap[c] = tid_to_stack_list)
          => FrameOf(tid_to_stack_list, c_fid[c]).refs = <<>>]_vars


\* C40: when no proceed() call is in progress, the resume counter is the number of
\* proceed() calls completed and the waited counter is the number of wait() calls
\* started.
C40_CountersCountCalls ==
    (\A c \in threads : cpc[c] = "idle")
        => /\ bw.proceeded = bw_hist.proceeds
           /\ bw.waited = bw_hist.waits

====
